---- MODULE Spec2Model ----
(***************************************************************************)
(* Model of the guild bucket store of botloader                            *)
(* (components/stores/src/bucketstore.rs).                                 *)
(*                                                                         *)
(* The table bucket_store is a function from composite keys                *)
(* (guild_id, plugin_id, bucket, key) to a row or NoRow.  Every method of  *)
(* Db issues exactly one SQL statement; the statement is one atomic step   *)
(* of the model and is evaluated at the database clock now().  The Rust    *)
(* code that runs before the statement (the ttl -> expires_at conversion   *)
(* with Utc::now()) is the Call step of the same method, so that time may  *)
(* pass, and other callers may act, between the two.                       *)
(*                                                                         *)
(* Assumptions: the client clock (Utc::now()) and the database clock       *)
(* (now()) are one clock, and now() is the instant at which the statement  *)
(* takes effect; doubles are modelled by small integers, on which f64      *)
(* addition is exact; a json document is an opaque token.                  *)
(***************************************************************************)
EXTENDS Integers, FiniteSets, Sequences, TLC

\* ---------------------------------------------------------------- bounds
\* Largest value of the clock.
MaxTime == 2
\* Largest double a caller passes as a value or as an increment.
MaxDouble == 2
\* Largest stored double: incr is not issued beyond it.
MaxVal == MaxDouble + 1

\* ------------------------------------------------------------- constants
\* Rust's Option and a nullable SQL column: None is Option::None and SQL NULL,
\* Some(x) a present value, o[1] the value of a present o.
None == <<>>
Some(x) == <<x>>
\* The table holds no row for the key.
NoRow == [norow |-> TRUE]
\* The longest std Duration that chrono::Duration::from_std accepts
\* (i64::MAX milliseconds, scaled to the model's clock).
ChronoMaxDuration == 1000

\* The concurrent callers, and the one caller of the sequential specification.
Procs == {1, 2}
Callers == {1}
Guilds == {1}
\* plugin_id arguments: Option<u64>
PluginArgs == {None}
Buckets == {"b"}
KeyNames == {"k"}

Jsons == {"j"}
Doubles == 1..MaxDouble
\* OpStorageBucketValue
Values ==
    [tag : {"Json"}, v : Jsons] \cup [tag : {"Double"}, v : Doubles]
\* the serde_json::Value::Null document
JsonNull == "null"
\* std::time::Duration: one tick of the clock, and a duration from_std rejects
Durations == {1, ChronoMaxDuration + 1}
\* Option<Duration>
Ttls == {None} \cup {Some(d) : d \in Durations}
\* OpStorageBucketSetCondition
Conds == {"IfExists", "IfNotExists"}

\* The number of bits of u64 and i64 in the model.
PluginBits == 2

\* n as i64, for a u64 n: two's complement
AsI64(n) == IF n >= 2^(PluginBits - 1) THEN n - 2^PluginBits ELSE n

\* n as u64, for an i64 n
AsU64(n) == IF n < 0 THEN n + 2^PluginBits ELSE n

\* plugin_id.unwrap_or(0) as i64
PluginCol(plugin_id) == AsI64(IF plugin_id = None THEN 0 ELSE plugin_id[1])

\* Mutant of DbKey: the bucket is not part of the key.
DbKey_IgnoresBucket(guild_id, plugin_id, bucket, key) ==
    <<guild_id, PluginCol(plugin_id), "b", key>>

\* The composite key the statement of a call addresses ($1, $2, $3, $4).
DbKey(guild_id, plugin_id, bucket, key) ==
    <<guild_id, PluginCol(plugin_id), bucket, key>>

Keys == {DbKey(g, p, b, k) : g \in Guilds, p \in PluginArgs, b \in Buckets, k \in KeyNames}

VARIABLES
    store,      \* the table bucket_store: Keys -> row or NoRow
    now,        \* the clock
    pc,         \* per caller: "idle", "called" (statement not yet run), "done"
    call,       \* per caller: the arguments of the call in progress
    ret,        \* per caller: what its statement did and returned
    lastProc,   \* the caller whose statement ran last, 0 if it has returned
    incrRun,    \* history: per key, the increments of the incr calls that ran one
                \* after the other, with no other write between, since an incr
                \* found the key without a row
    listing     \* the enumeration in progress (chained get_many calls of one
                \* client) and its history, NoListing if there is none

vars == <<store, now, pc, call, ret, lastProc, incrRun, listing>>

NoCall == [op |-> "none"]
NoRet == [res |-> "none"]
NoListing == [active |-> FALSE]

\* ------------------------------------------------------- pure functions

\* let expires_at = ttl.and_then(|ttl| from_std(ttl).map(|dur| Utc::now() + dur).ok())
ExpiresAt(ttl, t) ==
    IF ttl = None THEN None
    ELSE IF ttl[1] > ChronoMaxDuration THEN None
    ELSE Some(t + ttl[1])

\* let (val_num, val_json) = match value { Json(json) => (None, Some(json)), Double(n) => (Some(n), None) }
ValNum(value) == IF value.tag = "Double" THEN Some(value.v) ELSE None
ValJson(value) == IF value.tag = "Json" THEN Some(value.v) ELSE None

\* (expires_at IS NULL OR expires_at > now())
IsLive(row, t) == IF row.expires_at = None THEN TRUE ELSE row.expires_at[1] > t

\* (bucket_store.expires_at IS NOT NULL AND bucket_store.expires_at < now())
IsExpired(row, t) == row.expires_at # None /\ row.expires_at[1] < t

\* SQL addition: NULL if either operand is NULL.
SqlAdd(a, b) == IF a = None \/ b = None THEN None ELSE Some(a[1] + b[1])

\* impl From<DbEntry> for Entry
ToEntry(k, row) ==
    [bucket |-> k[3],
     key |-> k[4],
     plugin_id |-> IF k[2] > 0 THEN Some(AsU64(k[2])) ELSE None,
     expires_at |-> row.expires_at,
     value |-> IF row.value_float # None THEN [tag |-> "Double", v |-> row.value_float[1]]
               ELSE IF row.value_json # None THEN [tag |-> "Json", v |-> row.value_json[1]]
               ELSE [tag |-> "Json", v |-> JsonNull]]

\* res.map(Into::into) of fetch_optional / res.into() of fetch_one
Returning(k, row) == IF row = NoRow THEN None ELSE Some(ToEntry(k, row))

\* History of the enumeration l when the table becomes tbl at time t: the
\* keys that have been live since its first page, and whether the set of the
\* live keys of its bucket is still the one its first page found.
Track(l, tbl, t) ==
    IF ~l.active THEN l
    ELSE LET live == {k \in DOMAIN tbl :
                         /\ tbl[k] # NoRow
                         /\ <<k[1], k[2], k[3]>> = l.scope
                         /\ IsLive(tbl[k], t)}
         IN  [l EXCEPT !.stayed = @ \cap live,
                       !.fixed = @ /\ live = l.start]

\* ------------------------------------------------------- SQL statements
\* Each statement maps the row of its key (or NoRow) and the time now() to
\* [row |-> the row afterwards, out |-> the row it RETURNs or NoRow].

\* Mutant of GetStmt: the SELECT without its expiry condition.
GetStmt_NoExpiryTest(row, t) ==
    [row |-> row, out |-> row]

\* Mutant of GetStmt: the SELECT also removes the row it finds expired.
GetStmt_PurgesExpired(row, t) ==
    IF row # NoRow /\ IsLive(row, t)
    THEN [row |-> row, out |-> row]
    ELSE [row |-> NoRow, out |-> NoRow]

\* SELECT ... WHERE key = $4 AND (expires_at IS NULL OR expires_at > now())
GetStmt(row, t) ==
    [row |-> row,
     out |-> IF row # NoRow /\ IsLive(row, t) THEN row ELSE NoRow]

\* Mutant of SetStmt: the DO UPDATE leaves expires_at out of its SET list.
SetStmt_KeepsExpiry(row, t, expires_at, val_json, val_num) ==
    LET new ==
            IF row = NoRow
            THEN [created_at |-> t, updated_at |-> t, expires_at |-> expires_at,
                  value_json |-> val_json, value_float |-> val_num]
            ELSE [created_at |-> IF row.expires_at # None /\ row.expires_at[1] < t
                                 THEN t ELSE row.created_at,
                  updated_at |-> t,
                  expires_at |-> row.expires_at,
                  value_json |-> val_json,
                  value_float |-> val_num]
    IN  [row |-> new, out |-> new]

\* Mutant of SetStmt: the DO UPDATE leaves updated_at out of its SET list.
SetStmt_StaleUpdatedAt(row, t, expires_at, val_json, val_num) ==
    LET new ==
            IF row = NoRow
            THEN [created_at |-> t, updated_at |-> t, expires_at |-> expires_at,
                  value_json |-> val_json, value_float |-> val_num]
            ELSE [created_at |-> IF row.expires_at # None /\ row.expires_at[1] < t
                                 THEN t ELSE row.created_at,
                  updated_at |-> row.updated_at,
                  expires_at |-> expires_at,
                  value_json |-> val_json,
                  value_float |-> val_num]
    IN  [row |-> new, out |-> new]

\* INSERT ... ON CONFLICT DO UPDATE SET created_at = CASE ..., ... RETURNING
SetStmt(row, t, expires_at, val_json, val_num) ==
    LET new ==
            IF row = NoRow
            THEN [created_at |-> t, updated_at |-> t, expires_at |-> expires_at,
                  value_json |-> val_json, value_float |-> val_num]
            ELSE [created_at |-> IF IsExpired(row, t) THEN t ELSE row.created_at,
                  updated_at |-> t,
                  expires_at |-> expires_at,
                  value_json |-> val_json,
                  value_float |-> val_num]
    IN  [row |-> new, out |-> new]

\* Mutant of SetIfExistsStmt: the UPDATE without its expiry condition.
SetIfExistsStmt_NoExpiryTest(row, t, expires_at, val_json, val_num) ==
    IF row # NoRow
    THEN LET new == [created_at |-> row.created_at,
                     updated_at |-> t,
                     expires_at |-> expires_at,
                     value_json |-> val_json,
                     value_float |-> val_num]
         IN  [row |-> new, out |-> new]
    ELSE [row |-> row, out |-> NoRow]

\* Mutant of SetIfExistsStmt: the UPDATE also resets created_at.
SetIfExistsStmt_ResetsCreatedAt(row, t, expires_at, val_json, val_num) ==
    IF row # NoRow /\ IsLive(row, t)
    THEN LET new == [created_at |-> t,
                     updated_at |-> t,
                     expires_at |-> expires_at,
                     value_json |-> val_json,
                     value_float |-> val_num]
         IN  [row |-> new, out |-> new]
    ELSE [row |-> row, out |-> NoRow]

\* UPDATE ... WHERE key = $4 AND (expires_at IS NULL OR expires_at > now()) RETURNING
SetIfExistsStmt(row, t, expires_at, val_json, val_num) ==
    IF row # NoRow /\ IsLive(row, t)
    THEN LET new == [created_at |-> row.created_at,
                     updated_at |-> t,
                     expires_at |-> expires_at,
                     value_json |-> val_json,
                     value_float |-> val_num]
         IN  [row |-> new, out |-> new]
    ELSE [row |-> row, out |-> NoRow]

\* Mutant of SetIfNotExistsStmt: the DO UPDATE without its WHERE clause.
SetIfNotExistsStmt_NoWhere(row, t, expires_at, val_json, val_num) ==
    LET new == [created_at |-> t, updated_at |-> t, expires_at |-> expires_at,
                value_json |-> val_json, value_float |-> val_num]
    IN  [row |-> new, out |-> new]

\* INSERT ... ON CONFLICT DO UPDATE SET ... WHERE (expires_at IS NOT NULL AND expires_at < now()) RETURNING
SetIfNotExistsStmt(row, t, expires_at, val_json, val_num) ==
    LET new == [created_at |-> t, updated_at |-> t, expires_at |-> expires_at,
                value_json |-> val_json, value_float |-> val_num]
    IN  IF row = NoRow \/ IsExpired(row, t)
        THEN [row |-> new, out |-> new]
        ELSE [row |-> row, out |-> NoRow]

\* Mutant of DelStmt: the DELETE without its expiry condition.
DelStmt_NoExpiryTest(row, t) ==
    [row |-> NoRow, out |-> row]

\* DELETE ... WHERE key = $4 AND (expires_at IS NULL OR expires_at > now()) RETURNING
DelStmt(row, t) ==
    IF row # NoRow /\ IsLive(row, t)
    THEN [row |-> NoRow, out |-> row]
    ELSE [row |-> row, out |-> NoRow]

\* Mutant of IncrStmt: value_float = excluded.value_float, nothing is added.
IncrStmt_Overwrites(row, t, incr_by) ==
    LET new ==
            IF row = NoRow
            THEN [created_at |-> t, updated_at |-> t, expires_at |-> None,
                  value_json |-> None, value_float |-> Some(incr_by)]
            ELSE [created_at |-> IF row.expires_at # None /\ row.expires_at[1] < t
                                 THEN t ELSE row.created_at,
                  updated_at |-> t,
                  expires_at |-> None,
                  value_json |-> None,
                  value_float |-> Some(incr_by)]
    IN  [row |-> new, out |-> new]

\* INSERT (..., null, null, $5) ON CONFLICT DO UPDATE SET created_at = CASE ...,
\* expires_at = excluded.expires_at, value_json = excluded.value_json,
\* value_float = CASE ... RETURNING
IncrStmt(row, t, incr_by) ==
    LET new ==
            IF row = NoRow
            THEN [created_at |-> t, updated_at |-> t, expires_at |-> None,
                  value_json |-> None, value_float |-> Some(incr_by)]
            ELSE [created_at |-> IF IsExpired(row, t) THEN t ELSE row.created_at,
                  updated_at |-> t,
                  expires_at |-> None,
                  value_json |-> None,
                  value_float |-> IF IsExpired(row, t) THEN Some(incr_by)
                                  ELSE SqlAdd(Some(incr_by), row.value_float)]
    IN  [row |-> new, out |-> new]

\* ------------------------------------------------------------ the methods

Init ==
    /\ store = [k \in Keys |-> NoRow]
    /\ now = 0
    /\ pc = [p \in Procs |-> "idle"]
    /\ call = [p \in Procs |-> NoCall]
    /\ ret = [p \in Procs |-> NoRet]
    /\ lastProc = 0
    /\ incrRun = [k \in Keys |-> <<>>]
    /\ listing = NoListing

\* A method is entered: its arguments are fixed and the Rust code before the
\* statement has run.
Enter(p, c) ==
    /\ pc[p] = "idle"
    /\ pc' = [pc EXCEPT ![p] = "called"]
    /\ call' = [call EXCEPT ![p] = c]
    /\ UNCHANGED <<store, now, ret, lastProc, incrRun, listing>>

\* A call of method op enters with the key arguments a and the arguments c.
EnterOn(p, a, c) ==
    Enter(p, [guild_id |-> a[1], plugin_id |-> a[2], bucket |-> a[3], name |-> a[4],
              key |-> DbKey(a[1], a[2], a[3], a[4])] @@ c)

\* Mutant of Run: an UPDATE that takes effect column by column, so that the
\* row keeps the expires_at another writer gave it.
Run_MixesRows(p, r) ==
    LET k == call[p].key IN
    /\ store' = [store EXCEPT ![k] =
                     IF store[k] # NoRow /\ r.row # NoRow /\ r.row # store[k]
                     THEN [r.row EXCEPT !.expires_at = store[k].expires_at]
                     ELSE r.row]
    /\ pc' = [pc EXCEPT ![p] = "done"]
    /\ ret' = [ret EXCEPT ![p] =
                  [res |-> Returning(k, r.out),
                   table |-> store,
                   before |-> store[k],
                   after |-> r.row,
                   at |-> now,
                   inflight |-> {q \in Procs \ {p} : pc[q] = "called"}]]
    /\ lastProc' = p
    /\ incrRun' = [incrRun EXCEPT ![k] =
                      IF call[p].op = "incr"
                      THEN IF store[k] = NoRow THEN <<call[p].incr_by>>
                           ELSE IF incrRun[k] # <<>> THEN Append(incrRun[k], call[p].incr_by)
                           ELSE <<>>
                      ELSE IF call[p].op = "get" THEN incrRun[k]
                      ELSE <<>>]
    /\ listing' = Track(listing, store', now)
    /\ UNCHANGED <<now, call>>

\* The statement of caller p takes effect: r is the statement's result on the
\* row of the addressed key. The statement names the whole primary key: no
\* other row is read or written.
Run(p, r) ==
    LET k == call[p].key IN
    /\ store' = [store EXCEPT ![k] = r.row]
    /\ pc' = [pc EXCEPT ![p] = "done"]
    /\ ret' = [ret EXCEPT ![p] =
                  [res |-> Returning(k, r.out),
                   table |-> store,
                   before |-> store[k],
                   after |-> r.row,
                   at |-> now,
                   inflight |-> {q \in Procs \ {p} : pc[q] = "called"}]]
    /\ lastProc' = p
    /\ incrRun' = [incrRun EXCEPT ![k] =
                      IF call[p].op = "incr"
                      THEN IF store[k] = NoRow THEN <<call[p].incr_by>>
                           ELSE IF incrRun[k] # <<>> THEN Append(incrRun[k], call[p].incr_by)
                           ELSE <<>>
                      ELSE IF call[p].op = "get" THEN incrRun[k]
                      ELSE <<>>]
    /\ listing' = Track(listing, store', now)
    /\ UNCHANGED <<now, call>>

\* Db::get
CallGet(p) ==
    \E g \in Guilds, pl \in PluginArgs, b \in Buckets, k \in KeyNames :
        Enter(p, [op |-> "get", key |-> DbKey(g, pl, b, k)])

ExecGet(p) ==
    /\ pc[p] = "called"
    /\ call[p].op = "get"
    /\ Run(p, GetStmt(store[call[p].key], now))

\* Db::set
CallSet(p) ==
    \E g \in Guilds, pl \in PluginArgs, b \in Buckets, k \in KeyNames,
       value \in Values, ttl \in Ttls :
        Enter(p, [op |-> "set", key |-> DbKey(g, pl, b, k), value |-> value,
                  ttl |-> ttl, expires_at |-> ExpiresAt(ttl, now)])

ExecSet(p) ==
    /\ pc[p] = "called"
    /\ call[p].op = "set"
    /\ Run(p, SetStmt(store[call[p].key], now, call[p].expires_at,
                      ValJson(call[p].value), ValNum(call[p].value)))

\* Db::set_if
CallSetIf(p) ==
    \E g \in Guilds, pl \in PluginArgs, b \in Buckets, k \in KeyNames,
       value \in Values, ttl \in Ttls, cond \in Conds :
        Enter(p, [op |-> "set_if", key |-> DbKey(g, pl, b, k), value |-> value,
                  ttl |-> ttl, expires_at |-> ExpiresAt(ttl, now), cond |-> cond])

ExecSetIf(p) ==
    /\ pc[p] = "called"
    /\ call[p].op = "set_if"
    /\ IF call[p].cond = "IfExists"
       THEN Run(p, SetIfExistsStmt(store[call[p].key], now, call[p].expires_at,
                                   ValJson(call[p].value), ValNum(call[p].value)))
       ELSE Run(p, SetIfNotExistsStmt(store[call[p].key], now, call[p].expires_at,
                                      ValJson(call[p].value), ValNum(call[p].value)))

\* Db::del
CallDel(p) ==
    \E g \in Guilds, pl \in PluginArgs, b \in Buckets, k \in KeyNames :
        Enter(p, [op |-> "del", key |-> DbKey(g, pl, b, k)])

ExecDel(p) ==
    /\ pc[p] = "called"
    /\ call[p].op = "del"
    /\ Run(p, DelStmt(store[call[p].key], now))

\* Db::incr
CallIncr(p) ==
    \E g \in Guilds, pl \in PluginArgs, b \in Buckets, k \in KeyNames,
       incr_by \in Doubles :
        Enter(p, [op |-> "incr", key |-> DbKey(g, pl, b, k), incr_by |-> incr_by])

\* The stored double stays within MaxVal (a bound of the model).
WithinMaxVal(row) ==
    IF row.value_float = None THEN TRUE ELSE row.value_float[1] <= MaxVal

ExecIncr(p) ==
    /\ pc[p] = "called"
    /\ call[p].op = "incr"
    /\ WithinMaxVal(IncrStmt(store[call[p].key], now, call[p].incr_by).row)
    /\ Run(p, IncrStmt(store[call[p].key], now, call[p].incr_by))

\* The method returns to its caller.
Return(p) ==
    /\ pc[p] = "done"
    /\ pc' = [pc EXCEPT ![p] = "idle"]
    /\ call' = [call EXCEPT ![p] = NoCall]
    /\ ret' = [ret EXCEPT ![p] = NoRet]
    /\ lastProc' = IF lastProc = p THEN 0 ELSE lastProc
    /\ UNCHANGED <<store, now, incrRun, listing>>

\* Time passes.
Tick ==
    /\ now < MaxTime
    /\ now' = now + 1
    /\ listing' = Track(listing, store, now + 1)
    /\ UNCHANGED <<store, pc, call, ret, lastProc, incrRun>>

\* One caller issuing calls one after the other, time passing in between.
Next ==
    \/ \E p \in Callers : CallGet(p)
    \/ \E p \in Callers : ExecGet(p)
    \/ \E p \in Callers : CallSet(p)
    \/ \E p \in Callers : ExecSet(p)
    \/ \E p \in Callers : CallSetIf(p)
    \/ \E p \in Callers : ExecSetIf(p)
    \/ \E p \in Callers : CallDel(p)
    \/ \E p \in Callers : ExecDel(p)
    \/ \E p \in Callers : CallIncr(p)
    \/ \E p \in Callers : ExecIncr(p)
    \/ \E p \in Callers : Return(p)
    \/ Tick

Spec == Init /\ [][Next]_vars

\* The table the concurrent callers find: no row, or the row that a set of
\* the double 1 at time 0 left behind, without a ttl or with a ttl of one tick.
InitRows ==
    {NoRow} \cup
    {SetStmt(NoRow, 0, ExpiresAt(ttl, 0), None, Some(1)).row : ttl \in {None, Some(1)}}

InitRace ==
    /\ store \in [Keys -> InitRows]
    /\ now = 0
    /\ pc = [p \in Procs |-> "idle"]
    /\ call = [p \in Procs |-> NoCall]
    /\ ret = [p \in Procs |-> NoRet]
    /\ lastProc = 0
    /\ incrRun = [k \in Keys |-> <<>>]
    /\ listing = NoListing

\* Two callers, each issuing one call, in every interleaving of their steps
\* and of the clock.
NextRace ==
    \/ \E p \in Procs : CallGet(p)
    \/ \E p \in Procs : ExecGet(p)
    \/ \E p \in Procs : CallSet(p)
    \/ \E p \in Procs : ExecSet(p)
    \/ \E p \in Procs : CallSetIf(p)
    \/ \E p \in Procs : ExecSetIf(p)
    \/ \E p \in Procs : CallDel(p)
    \/ \E p \in Procs : ExecDel(p)
    \/ \E p \in Procs : CallIncr(p)
    \/ \E p \in Procs : ExecIncr(p)
    \/ Tick

SpecRace == InitRace /\ [][NextRace]_vars


\* ------------------------------------------- statements over several rows
\* The methods below address a whole (guild, plugin, bucket) or a whole guild.
\* Their table holds rows of two guilds, two plugins and two buckets.

\* Largest limit and offset a caller passes.
MaxLimit == 2

\* The text values of the model as sequences of code points ('%' = 37,
\* 'A' = 65, '\' = 92, '_' = 95, 'a' = 97, ...).
Chars ==
    ("" :> <<>> @@ "A" :> <<65>> @@ "ab" :> <<97, 98>> @@ "%" :> <<37>> @@
     "a%" :> <<97, 37>> @@ "_" :> <<95>> @@ "b" :> <<98>> @@ "c" :> <<99>> @@
     "j" :> <<106>> @@ "k" :> <<107>>)

ListGuilds == {1, 2}
\* The (guild_id, plugin_id, bucket) arguments of the calls.
ListScopes == {<<1, None, "b">>, <<2, None, "b">>, <<1, Some(1), "b">>, <<1, None, "c">>}
ListKeyNames == {"", "A", "ab"}
\* key_pattern arguments
Patterns == {"%", "a%", "_"}
\* after arguments
Cursors == {"", "A"}
\* OpStorageBucketListOrder
Orders == {"Ascending", "Descending"}

\* The rows of the table: every key name in guild 1, no plugin, bucket "b";
\* the key "ab" in another guild, under another plugin and in another bucket.
ListKeys ==
    {DbKey(1, None, "b", k) : k \in ListKeyNames} \cup
    {DbKey(sc[1], sc[2], sc[3], "ab") : sc \in ListScopes}

\* text comparison a < b, code point by code point (C collation)
RECURSIVE StrLess(_, _)
StrLess(a, b) ==
    IF b = <<>> THEN FALSE
    ELSE IF a = <<>> THEN TRUE
    ELSE IF a[1] # b[1] THEN a[1] < b[1]
    ELSE StrLess(Tail(a), Tail(b))

\* lower(c) for an ASCII letter
Lower(c) == IF c \in 65..90 THEN c + 32 ELSE c

\* str ILIKE pat: '%' matches any run of characters, '_' any one character,
\* '\' quotes the next character, letters match without regard to case.
RECURSIVE ILike(_, _)
ILike(str, pat) ==
    IF pat = <<>> THEN str = <<>>
    ELSE IF pat[1] = 37
         THEN IF ILike(str, Tail(pat)) THEN TRUE
              ELSE IF str = <<>> THEN FALSE
              ELSE ILike(Tail(str), pat)
    ELSE IF str = <<>> THEN FALSE
    ELSE IF pat[1] = 95 THEN ILike(Tail(str), Tail(pat))
    ELSE IF pat[1] = 92 /\ Len(pat) >= 2
         THEN Lower(pat[2]) = Lower(str[1]) /\ ILike(Tail(str), Tail(Tail(pat)))
    ELSE Lower(pat[1]) = Lower(str[1]) /\ ILike(Tail(str), Tail(pat))

\* WHERE guild_id = $1 AND plugin_id = $2 AND bucket = $3 AND
\* (expires_at IS NULL OR expires_at > now())
LiveInBucket(tbl, guild_id, plugin_id, bucket, t) ==
    {k \in DOMAIN tbl :
        /\ tbl[k] # NoRow
        /\ k[1] = guild_id
        /\ k[2] = PluginCol(plugin_id)
        /\ k[3] = bucket
        /\ IsLive(tbl[k], t)}

\* ... AND key ILIKE $4
LiveMatching(tbl, guild_id, plugin_id, bucket, key_pattern, t) ==
    {k \in LiveInBucket(tbl, guild_id, plugin_id, bucket, t) :
        ILike(Chars[k[4]], Chars[key_pattern])}

\* The keys of S in the order of ORDER BY (guild_id, bucket, key): all keys of
\* S have the same guild_id and bucket, so the order is that of the key.
RECURSIVE OrderByKey(_)
OrderByKey(S) ==
    IF S = {} THEN <<>>
    ELSE LET first == CHOOSE k \in S :
                          \A o \in S \ {k} : StrLess(Chars[k[4]], Chars[o[4]])
         IN  <<first>> \o OrderByKey(S \ {first})

\* LIMIT n OFFSET m
LimitOffset(q, n, m) ==
    SubSeq(q, m + 1, IF m + n < Len(q) THEN m + n ELSE Len(q))

\* res.into_iter().map(Into::into).collect()
Entries(tbl, keys) == [i \in 1..Len(keys) |-> ToEntry(keys[i], tbl[keys[i]])]

\* Mutant of DelManyStmt: the DELETE without its expiry condition.
DelManyStmt_NoExpiryTest(tbl, guild_id, plugin_id, bucket, key_pattern, t) ==
    LET gone == {k \in DOMAIN tbl :
                    /\ tbl[k] # NoRow
                    /\ k[1] = guild_id
                    /\ k[2] = PluginCol(plugin_id)
                    /\ k[3] = bucket
                    /\ ILike(Chars[k[4]], Chars[key_pattern])}
    IN  [table |-> [k \in DOMAIN tbl |-> IF k \in gone THEN NoRow ELSE tbl[k]],
         out |-> Cardinality(gone)]

\* DELETE ... WHERE ... AND key ILIKE $4 AND (expires_at IS NULL OR expires_at > now())
DelManyStmt(tbl, guild_id, plugin_id, bucket, key_pattern, t) ==
    LET gone == LiveMatching(tbl, guild_id, plugin_id, bucket, key_pattern, t)
    IN  [table |-> [k \in DOMAIN tbl |-> IF k \in gone THEN NoRow ELSE tbl[k]],
         out |-> Cardinality(gone)]

\* Mutant of GetManyStmt: key >= $5 in the place of key > $5.
GetManyStmt_AfterInclusive(tbl, guild_id, plugin_id, bucket, key_pattern, after, limit, t) ==
    LET hits == {k \in LiveMatching(tbl, guild_id, plugin_id, bucket, key_pattern, t) :
                    ~StrLess(Chars[k[4]], Chars[after])}
    IN  [table |-> tbl,
         out |-> Entries(tbl, LimitOffset(OrderByKey(hits), limit, 0))]

\* SELECT ... WHERE ... AND key ILIKE $4 AND key > $5 AND (...) ORDER BY (guild_id, bucket, key) LIMIT $6
GetManyStmt(tbl, guild_id, plugin_id, bucket, key_pattern, after, limit, t) ==
    LET hits == {k \in LiveMatching(tbl, guild_id, plugin_id, bucket, key_pattern, t) :
                    StrLess(Chars[after], Chars[k[4]])}
    IN  [table |-> tbl,
         out |-> Entries(tbl, LimitOffset(OrderByKey(hits), limit, 0))]

\* SELECT count(*) ... WHERE ... AND key ILIKE $4 AND (...)
CountStmt(tbl, guild_id, plugin_id, bucket, key_pattern, t) ==
    [table |-> tbl,
     out |-> Cardinality(LiveMatching(tbl, guild_id, plugin_id, bucket, key_pattern, t))]

\* pg_column_size(t): the bytes of one row (header, key text, the columns present)
ColumnSize(k, row) ==
    64 + Len(Chars[k[3]]) + Len(Chars[k[4]])
       + (IF row.expires_at = None THEN 0 ELSE 8)
       + (IF row.value_float = None THEN 0 ELSE 8)
       + (IF row.value_json = None THEN 0 ELSE Len(Chars[row.value_json[1]]))

RECURSIVE SumSizes(_, _)
SumSizes(tbl, S) ==
    IF S = {} THEN 0
    ELSE LET k == CHOOSE x \in S : TRUE
         IN  ColumnSize(k, tbl[k]) + SumSizes(tbl, S \ {k})

\* Mutant of UsageStmt: the SELECT without its expiry condition.
UsageStmt_NoExpiryTest(tbl, guild_id, t) ==
    [table |-> tbl,
     out |-> SumSizes(tbl, {k \in DOMAIN tbl : tbl[k] # NoRow /\ k[1] = guild_id})]

\* SELECT sum(pg_column_size(t)) FROM bucket_store t WHERE guild_id = $1 AND (...)
\* res.sum.unwrap_or_default()
UsageStmt(tbl, guild_id, t) ==
    [table |-> tbl,
     out |-> SumSizes(tbl, {k \in DOMAIN tbl :
                               tbl[k] # NoRow /\ k[1] = guild_id /\ IsLive(tbl[k], t)})]

\* Mutant of DeleteGuildStmt: the DELETE restricted to rows without expiry.
DeleteGuildStmt_PermanentOnly(tbl, guild_id) ==
    [table |-> [k \in DOMAIN tbl |->
                   IF k[1] # guild_id \/ tbl[k] = NoRow THEN tbl[k]
                   ELSE IF tbl[k].expires_at = None THEN NoRow ELSE tbl[k]],
     out |-> None]

\* DELETE FROM bucket_store WHERE guild_id = $1
DeleteGuildStmt(tbl, guild_id) ==
    [table |-> [k \in DOMAIN tbl |-> IF k[1] = guild_id THEN NoRow ELSE tbl[k]],
     out |-> None]

\* ORDER BY value_float ASC, updated_at ASC: r1 sorts strictly before r2.
\* A NULL value_float sorts as larger than every number.
AscBefore(r1, r2) ==
    IF r1.value_float = r2.value_float THEN r1.updated_at < r2.updated_at
    ELSE IF r1.value_float = None THEN FALSE
    ELSE IF r2.value_float = None THEN TRUE
    ELSE r1.value_float[1] < r2.value_float[1]

\* Mutant of SortsBefore: the ascending order whatever the order asked for.
SortsBefore_AlwaysAscending(r1, r2, order) == AscBefore(r1, r2)

\* ... or ORDER BY value_float DESC, updated_at DESC
SortsBefore(r1, r2, order) ==
    IF order = "Ascending" THEN AscBefore(r1, r2) ELSE AscBefore(r2, r1)

\* Every sequence that holds each key of S once.
Arrangements(S) ==
    {q \in [1..Cardinality(S) -> S] : \A i, j \in 1..Cardinality(S) : i # j => q[i] # q[j]}

\* SELECT ... WHERE ... AND (...) ORDER BY value_float, updated_at LIMIT $4 OFFSET $5
\* Rows that agree in both sort columns come in any order: the set of the
\* results the statement can give.
SortedStmt(tbl, guild_id, plugin_id, bucket, order, offset, limit, t) ==
    LET hits == LiveInBucket(tbl, guild_id, plugin_id, bucket, t)
        sorted == {q \in Arrangements(hits) :
                      \A i, j \in 1..Len(q) :
                          i < j => ~SortsBefore(tbl[q[j]], tbl[q[i]], order)}
    IN  {[table |-> tbl, out |-> Entries(tbl, LimitOffset(q, limit, offset))] : q \in sorted}

\* ------------------------------------------------ calls over several rows
\* The rows the keys "A" and "ab" of guild 1, no plugin, bucket "b" can hold
\* when a listing call arrives, at time 1: no row, or what a set at time 0 or
\* 1 has left.
ListRows ==
    {NoRow,
     SetStmt(NoRow, 0, ExpiresAt(None, 0), None, Some(1)).row,
     SetStmt(NoRow, 1, ExpiresAt(None, 1), None, Some(1)).row,
     SetStmt(NoRow, 1, ExpiresAt(Some(1), 1), None, Some(2)).row,
     SetStmt(NoRow, 0, ExpiresAt(None, 0), Some("j"), None).row}

\* The rows the other keys can hold.
OtherRows ==
    {NoRow, SetStmt(NoRow, 0, ExpiresAt(None, 0), None, Some(1)).row}

InitList ==
    /\ store \in {tbl \in [ListKeys -> ListRows] :
                     \A k \in ListKeys :
                         k \notin {DbKey(1, None, "b", n) : n \in ListKeyNames \ {""}}
                             => tbl[k] \in OtherRows}
    /\ now = 1
    /\ pc = [p \in Procs |-> "idle"]
    /\ call = [p \in Procs |-> NoCall]
    /\ ret = [p \in Procs |-> NoRet]
    /\ lastProc = 0
    /\ incrRun = [k \in ListKeys |-> <<>>]
    /\ listing = NoListing

\* A method that is one statement over the table: caller p passes the
\* arguments c, the statement takes effect with result r.
RunTable(p, c, r) ==
    /\ pc[p] = "idle"
    /\ pc' = [pc EXCEPT ![p] = "done"]
    /\ call' = [call EXCEPT ![p] = c]
    /\ store' = r.table
    /\ ret' = [ret EXCEPT ![p] =
                  [res |-> r.out, before |-> store, after |-> r.table, at |-> now,
                   inflight |-> {q \in Procs \ {p} : pc[q] = "called"}]]
    /\ lastProc' = p
    /\ incrRun' = [k \in DOMAIN incrRun |->
                      IF r.table[k] = store[k] THEN incrRun[k] ELSE <<>>]
    /\ listing' = Track(listing, r.table, now)
    /\ UNCHANGED now

\* Db::del_many
DelMany(p) ==
    \E sc \in ListScopes, key_pattern \in Patterns :
        RunTable(p, [op |-> "del_many", guild_id |-> sc[1], plugin_id |-> sc[2],
                     bucket |-> sc[3], key_pattern |-> key_pattern],
                 DelManyStmt(store, sc[1], sc[2], sc[3], key_pattern, now))

\* Db::get_many
GetMany(p) ==
    \E sc \in ListScopes, key_pattern \in Patterns, after \in Cursors, limit \in 0..MaxLimit :
        RunTable(p, [op |-> "get_many", guild_id |-> sc[1], plugin_id |-> sc[2],
                     bucket |-> sc[3], key_pattern |-> key_pattern,
                     after |-> after, limit |-> limit],
                 GetManyStmt(store, sc[1], sc[2], sc[3], key_pattern, after, limit, now))

\* Db::count
Count(p) ==
    \E sc \in ListScopes, key_pattern \in Patterns :
        RunTable(p, [op |-> "count", guild_id |-> sc[1], plugin_id |-> sc[2],
                     bucket |-> sc[3], key_pattern |-> key_pattern],
                 CountStmt(store, sc[1], sc[2], sc[3], key_pattern, now))

\* Db::guild_storage_usage_bytes
GuildStorageUsageBytes(p) ==
    \E guild_id \in ListGuilds :
        RunTable(p, [op |-> "guild_storage_usage_bytes", guild_id |-> guild_id],
                 UsageStmt(store, guild_id, now))

\* Db::sorted_entries
SortedEntries(p) ==
    \E sc \in ListScopes, order \in Orders, offset \in 0..MaxLimit, limit \in 0..MaxLimit :
        /\ pc[p] = "idle"
        /\ \E r \in SortedStmt(store, sc[1], sc[2], sc[3], order, offset, limit, now) :
               RunTable(p, [op |-> "sorted_entries", guild_id |-> sc[1], plugin_id |-> sc[2],
                            bucket |-> sc[3], order |-> order, offset |-> offset,
                            limit |-> limit], r)

\* Db::delete_guild_bucket_store_data
DeleteGuildBucketStoreData(p) ==
    \E guild_id \in ListGuilds :
        RunTable(p, [op |-> "delete_guild_bucket_store_data", guild_id |-> guild_id],
                 DeleteGuildStmt(store, guild_id))

\* The (guild_id, plugin_id, bucket, key) arguments that name the rows of the table.
ListArgs ==
    {<<1, None, "b", k>> : k \in ListKeyNames} \cup
    {<<sc[1], sc[2], sc[3], "ab">> : sc \in ListScopes}

\* Db::get of a key of the table
CallGetRow(p) ==
    \E a \in ListArgs : EnterOn(p, a, [op |-> "get"])

\* One caller issuing the calls over several rows one after the other, time
\* passing in between.
NextList ==
    \/ \E p \in Callers : CallGetRow(p)
    \/ \E p \in Callers : ExecGet(p)
    \/ \E p \in Callers : DelMany(p)
    \/ \E p \in Callers : GetMany(p)
    \/ \E p \in Callers : Count(p)
    \/ \E p \in Callers : GuildStorageUsageBytes(p)
    \/ \E p \in Callers : SortedEntries(p)
    \/ \E p \in Callers : DeleteGuildBucketStoreData(p)
    \/ \E p \in Callers : Return(p)
    \/ Tick

SpecList == InitList /\ [][NextList]_vars

\* ------------------------------------------------- chained get_many calls
\* A client enumerates a bucket: its first get_many has the empty string as
\* `after`, each later one the last key of the page before, until a page
\* comes back empty. Another caller sets and deletes keys of the bucket and
\* the clock runs in between.
EnumKeys == {DbKey(1, None, "b", k) : k \in ListKeyNames}

\* The enumeration begins one tick before the end of the clock, on rows that
\* a set has just written, without or with a time to live of one tick.
EnumStart == MaxTime - 1

EnumRows ==
    {NoRow} \cup
    {SetStmt(NoRow, EnumStart, ExpiresAt(ttl, EnumStart), None, Some(1)).row :
        ttl \in {None, Some(1)}}

InitEnum ==
    /\ store \in [EnumKeys -> EnumRows]
    /\ now = EnumStart
    /\ pc = [p \in Procs |-> "idle"]
    /\ call = [p \in Procs |-> NoCall]
    /\ ret = [p \in Procs |-> NoRet]
    /\ lastProc = 0
    /\ incrRun = [k \in EnumKeys |-> <<>>]
    /\ listing = NoListing

\* One get_many of the enumeration l, with arguments c.
Page(p, c, l) ==
    LET r == GetManyStmt(store, c.guild_id, c.plugin_id, c.bucket,
                         c.key_pattern, c.after, c.limit, now)
        names == {r.out[i].key : i \in 1..Len(r.out)}
    IN  /\ pc' = [pc EXCEPT ![p] = "done"]
        /\ call' = [call EXCEPT ![p] = c]
        /\ ret' = [ret EXCEPT ![p] = [res |-> r.out, at |-> now]]
        /\ lastProc' = p
        /\ listing' = [l EXCEPT
               !.keys = @ \o [i \in 1..Len(r.out) |-> r.out[i].key],
               !.dead = @ \cup {n \in names :
                                   LET row == store[DbKey(c.guild_id, c.plugin_id, c.bucket, n)]
                                   IN  IF row = NoRow THEN TRUE ELSE ~IsLive(row, now)},
               !.done = (r.out = <<>>)]
        /\ UNCHANGED <<store, now, incrRun>>

FirstPage(p) ==
    /\ pc[p] = "idle"
    /\ \E key_pattern \in Patterns, limit \in 1..MaxLimit :
           Page(p, [op |-> "get_many", guild_id |-> 1, plugin_id |-> None, bucket |-> "b",
                    key_pattern |-> key_pattern, after |-> "", limit |-> limit],
                [active |-> TRUE,
                 scope |-> <<1, PluginCol(None), "b">>,
                 keys |-> <<>>,
                 dead |-> {},
                 done |-> FALSE,
                 start |-> LiveInBucket(store, 1, None, "b", now),
                 stayed |-> LiveMatching(store, 1, None, "b", key_pattern, now),
                 fixed |-> TRUE])

NextPage(p) ==
    /\ pc[p] = "done"
    /\ call[p].op = "get_many"
    /\ ret[p].res # <<>>
    /\ Page(p, [call[p] EXCEPT !.after = ret[p].res[Len(ret[p].res)].key], listing)

\* Db::count with the pattern of the enumeration, once its last page is in.
CountAfter(p) ==
    /\ pc[p] = "done"
    /\ call[p].op = "get_many"
    /\ ret[p].res = <<>>
    /\ call' = [call EXCEPT ![p] = [op |-> "count", guild_id |-> call[p].guild_id,
                                    plugin_id |-> call[p].plugin_id,
                                    bucket |-> call[p].bucket,
                                    key_pattern |-> call[p].key_pattern]]
    /\ ret' = [ret EXCEPT ![p] =
                  [res |-> CountStmt(store, call[p].guild_id, call[p].plugin_id,
                                     call[p].bucket, call[p].key_pattern, now).out,
                   at |-> now]]
    /\ lastProc' = p
    /\ UNCHANGED <<store, now, pc, incrRun, listing>>

\* The client is done with its enumeration.
EndListing(p) ==
    /\ pc[p] = "done"
    /\ pc' = [pc EXCEPT ![p] = "idle"]
    /\ call' = [call EXCEPT ![p] = NoCall]
    /\ ret' = [ret EXCEPT ![p] = NoRet]
    /\ lastProc' = IF lastProc = p THEN 0 ELSE lastProc
    /\ listing' = NoListing
    /\ UNCHANGED <<store, now, incrRun>>

\* A whole call of the other caller, from its entry to its return.
Write(p, k, row) ==
    /\ pc[p] = "idle"
    /\ store' = [store EXCEPT ![k] = row]
    /\ lastProc' = p
    /\ incrRun' = [incrRun EXCEPT ![k] = <<>>]
    /\ listing' = Track(listing, store', now)
    /\ UNCHANGED <<now, pc, call, ret>>

\* Db::set of a double without a time to live
SetCall(p) ==
    \E k \in EnumKeys :
        Write(p, k, SetStmt(store[k], now, ExpiresAt(None, now), None, Some(1)).row)

\* Db::del
DelCall(p) ==
    \E k \in EnumKeys : Write(p, k, DelStmt(store[k], now).row)

NextEnum ==
    \/ \E p \in Procs \ Callers : FirstPage(p)
    \/ \E p \in Procs \ Callers : NextPage(p)
    \/ \E p \in Procs \ Callers : CountAfter(p)
    \/ \E p \in Procs \ Callers : EndListing(p)
    \/ \E p \in Callers : SetCall(p)
    \/ \E p \in Callers : DelCall(p)
    \/ Tick

SpecEnum == InitEnum /\ [][NextEnum]_vars

\* ------------------------------------------------- storage use of a guild
\* One caller sets and deletes keys of two guilds, of two plugins and two
\* buckets, and asks for the storage use of a guild in between.
UsageKeys == {DbKey(sc[1], sc[2], sc[3], "ab") : sc \in ListScopes}

InitUsage ==
    /\ store \in [UsageKeys -> EnumRows]
    /\ now = EnumStart
    /\ pc = [p \in Procs |-> "idle"]
    /\ call = [p \in Procs |-> NoCall]
    /\ ret = [p \in Procs |-> NoRet]
    /\ lastProc = 0
    /\ incrRun = [k \in UsageKeys |-> <<>>]
    /\ listing = NoListing

\* Db::set of a double on a key of the table, without or with a time to live
CallSetRow(p) ==
    \E sc \in ListScopes, ttl \in {None, Some(1)} :
        Enter(p, [op |-> "set", key |-> DbKey(sc[1], sc[2], sc[3], "ab"),
                  value |-> [tag |-> "Double", v |-> 1],
                  ttl |-> ttl, expires_at |-> ExpiresAt(ttl, now)])

\* Db::del of a key of the table
CallDelRow(p) ==
    \E sc \in ListScopes :
        Enter(p, [op |-> "del", key |-> DbKey(sc[1], sc[2], sc[3], "ab")])

NextUsage ==
    \/ \E p \in Callers : CallSetRow(p)
    \/ \E p \in Callers : ExecSet(p)
    \/ \E p \in Callers : CallDelRow(p)
    \/ \E p \in Callers : ExecDel(p)
    \/ \E p \in Callers : GuildStorageUsageBytes(p)
    \/ \E p \in Callers : Return(p)
    \/ Tick

SpecUsage == InitUsage /\ [][NextUsage]_vars

\* ------------------------------------------------ calls on different keys
\* Two callers, one call each: the first on a key of guild 1, no plugin,
\* bucket "b", the second on a key that differs from it in the guild, the
\* plugin, the bucket or the key name, in every interleaving of their steps
\* and of the clock.
PairArgs ==
    {<<1, None, "b", "ab">>, <<2, None, "b", "ab">>, <<1, Some(1), "b", "ab">>,
     <<1, None, "c", "ab">>, <<1, None, "b", "A">>}

PairKeys == {DbKey(a[1], a[2], a[3], a[4]) : a \in PairArgs}

\* The arguments caller p passes.
ArgsOf(p) == IF p \in Callers THEN {<<1, None, "b", "ab">>} ELSE PairArgs \ {<<1, None, "b", "ab">>}

InitPair ==
    /\ store \in [PairKeys -> {NoRow, SetStmt(NoRow, EnumStart, None, None, Some(1)).row}]
    /\ now = EnumStart
    /\ pc = [p \in Procs |-> "idle"]
    /\ call = [p \in Procs |-> NoCall]
    /\ ret = [p \in Procs |-> NoRet]
    /\ lastProc = 0
    /\ incrRun = [k \in PairKeys |-> <<>>]
    /\ listing = NoListing

\* Db::get
CallGetOn(p) ==
    \E a \in ArgsOf(p) : EnterOn(p, a, [op |-> "get"])

\* Db::set of a double, without or with a time to live
CallSetOn(p) ==
    \E a \in ArgsOf(p), ttl \in {None, Some(1)} :
        EnterOn(p, a, [op |-> "set", value |-> [tag |-> "Double", v |-> 2],
                       ttl |-> ttl, expires_at |-> ExpiresAt(ttl, now)])

\* Db::set_if of a double without a time to live
CallSetIfOn(p) ==
    \E a \in ArgsOf(p), cond \in Conds :
        EnterOn(p, a, [op |-> "set_if", value |-> [tag |-> "Double", v |-> 2],
                       ttl |-> None, expires_at |-> ExpiresAt(None, now), cond |-> cond])

\* Db::del
CallDelOn(p) ==
    \E a \in ArgsOf(p) : EnterOn(p, a, [op |-> "del"])

\* Db::incr
CallIncrOn(p) ==
    \E a \in ArgsOf(p) : EnterOn(p, a, [op |-> "incr", incr_by |-> 1])

NextPair ==
    \/ \E p \in Procs : CallGetOn(p)
    \/ \E p \in Procs : ExecGet(p)
    \/ \E p \in Procs : CallSetOn(p)
    \/ \E p \in Procs : ExecSet(p)
    \/ \E p \in Procs : CallSetIfOn(p)
    \/ \E p \in Procs : ExecSetIf(p)
    \/ \E p \in Procs : CallDelOn(p)
    \/ \E p \in Procs : ExecDel(p)
    \/ \E p \in Procs : CallIncrOn(p)
    \/ \E p \in Procs : ExecIncr(p)
    \/ Tick

SpecPair == InitPair /\ [][NextPair]_vars

\* ----------------------------------------------------- calls per plugin
\* One caller sets, gets and deletes one key name of one bucket under every
\* plugin_id argument: none, and every u64.
PluginIds == {None} \cup {Some(n) : n \in 0..(2^PluginBits - 1)}

PluginKeys == {DbKey(1, pl, "b", "k") : pl \in PluginIds}

InitPlugin ==
    /\ store = [k \in PluginKeys |-> NoRow]
    /\ now = 0
    /\ pc = [p \in Procs |-> "idle"]
    /\ call = [p \in Procs |-> NoCall]
    /\ ret = [p \in Procs |-> NoRet]
    /\ lastProc = 0
    /\ incrRun = [k \in PluginKeys |-> <<>>]
    /\ listing = NoListing

\* Db::set of a double without a time to live
CallSetAs(p) ==
    \E pl \in PluginIds, v \in Doubles :
        EnterOn(p, <<1, pl, "b", "k">>,
                [op |-> "set", value |-> [tag |-> "Double", v |-> v],
                 ttl |-> None, expires_at |-> ExpiresAt(None, now)])

\* Db::get
CallGetAs(p) ==
    \E pl \in PluginIds : EnterOn(p, <<1, pl, "b", "k">>, [op |-> "get"])

\* Db::del
CallDelAs(p) ==
    \E pl \in PluginIds : EnterOn(p, <<1, pl, "b", "k">>, [op |-> "del"])

NextPlugin ==
    \/ \E p \in Callers : CallSetAs(p)
    \/ \E p \in Callers : ExecSet(p)
    \/ \E p \in Callers : CallGetAs(p)
    \/ \E p \in Callers : ExecGet(p)
    \/ \E p \in Callers : CallDelAs(p)
    \/ \E p \in Callers : ExecDel(p)
    \/ \E p \in Callers : Return(p)

SpecPlugin == InitPlugin /\ [][NextPlugin]_vars

\* ------------------------------------------------- the table as a heap
\* The table as the sequence of the rows it holds, each with its key columns,
\* in the order of their insertion.  The statements find the rows of a key
\* through the index on (guild_id, plugin_id, bucket, key) that their
\* ON CONFLICT clause names.
HeapArgs == {<<1, None, "b", "A">>, <<1, None, "b", "ab">>}

\* Mutant of Arbiter: an INSERT that finds no conflict.
Arbiter_FindsNone(heap, k) == {}

\* ON CONFLICT (guild_id, plugin_id, bucket, key), WHERE guild_id = $1 AND
\* plugin_id = $2 AND bucket = $3 AND key = $4: the positions of the rows of
\* key k, expired or not.
Arbiter(heap, k) == {i \in DOMAIN heap : heap[i].key = k}

\* The row of key k a statement works on, NoRow when there is none.
Found(heap, k) ==
    IF Arbiter(heap, k) = {} THEN NoRow
    ELSE heap[CHOOSE i \in Arbiter(heap, k) : TRUE].row

\* The heap after a statement on key k that leaves row: inserted when no row
\* of the key was found, else updated in place or deleted.
Put(heap, k, row) ==
    LET hit == Arbiter(heap, k)
        Kept(e) == \A i \in hit : heap[i] # e
    IN  IF hit = {}
        THEN IF row = NoRow THEN heap ELSE Append(heap, [key |-> k, row |-> row])
        ELSE IF row = NoRow THEN SelectSeq(heap, Kept)
        ELSE [i \in DOMAIN heap |->
                 IF i \in hit THEN [key |-> k, row |-> row] ELSE heap[i]]

InitHeap ==
    /\ store = <<>>
    /\ now = 0
    /\ pc = [p \in Procs |-> "idle"]
    /\ call = [p \in Procs |-> NoCall]
    /\ ret = [p \in Procs |-> NoRet]
    /\ lastProc = 0
    /\ incrRun = [k \in Keys |-> <<>>]
    /\ listing = NoListing

\* The statement of caller p takes effect on the heap and its result is
\* converted.
RunHeap(p, r) ==
    LET k == call[p].key IN
    /\ store' = Put(store, k, r.row)
    /\ pc' = [pc EXCEPT ![p] = "done"]
    /\ ret' = [ret EXCEPT ![p] =
                  [res |-> Returning(k, r.out),
                   table |-> store,
                   before |-> Found(store, k),
                   after |-> r.row,
                   at |-> now,
                   inflight |-> {q \in Procs \ {p} : pc[q] = "called"}]]
    /\ lastProc' = p
    /\ UNCHANGED <<now, call, incrRun, listing>>

\* Db::set of a double, without or with a time to live
CallSetKey(p) ==
    \E a \in HeapArgs, ttl \in {None, Some(1)} :
        EnterOn(p, a, [op |-> "set", value |-> [tag |-> "Double", v |-> 2],
                       ttl |-> ttl, expires_at |-> ExpiresAt(ttl, now)])

ExecSetKey(p) ==
    /\ pc[p] = "called"
    /\ call[p].op = "set"
    /\ RunHeap(p, SetStmt(Found(store, call[p].key), now, call[p].expires_at,
                          ValJson(call[p].value), ValNum(call[p].value)))

\* Db::set_if of a double with a time to live
CallSetIfKey(p) ==
    \E a \in HeapArgs, cond \in Conds :
        EnterOn(p, a, [op |-> "set_if", value |-> [tag |-> "Double", v |-> 1],
                       ttl |-> Some(1), expires_at |-> ExpiresAt(Some(1), now),
                       cond |-> cond])

ExecSetIfKey(p) ==
    /\ pc[p] = "called"
    /\ call[p].op = "set_if"
    /\ IF call[p].cond = "IfExists"
       THEN RunHeap(p, SetIfExistsStmt(Found(store, call[p].key), now, call[p].expires_at,
                                       ValJson(call[p].value), ValNum(call[p].value)))
       ELSE RunHeap(p, SetIfNotExistsStmt(Found(store, call[p].key), now, call[p].expires_at,
                                          ValJson(call[p].value), ValNum(call[p].value)))

\* Db::del
CallDelKey(p) ==
    \E a \in HeapArgs : EnterOn(p, a, [op |-> "del"])

ExecDelKey(p) ==
    /\ pc[p] = "called"
    /\ call[p].op = "del"
    /\ RunHeap(p, DelStmt(Found(store, call[p].key), now))

\* Db::incr
CallIncrKey(p) ==
    \E a \in HeapArgs : EnterOn(p, a, [op |-> "incr", incr_by |-> 1])

ExecIncrKey(p) ==
    /\ pc[p] = "called"
    /\ call[p].op = "incr"
    /\ WithinMaxVal(IncrStmt(Found(store, call[p].key), now, call[p].incr_by).row)
    /\ RunHeap(p, IncrStmt(Found(store, call[p].key), now, call[p].incr_by))

\* One caller issuing calls one after the other on two keys, time passing in
\* between.
NextHeap ==
    \/ \E p \in Callers : CallSetKey(p)
    \/ \E p \in Callers : ExecSetKey(p)
    \/ \E p \in Callers : CallSetIfKey(p)
    \/ \E p \in Callers : ExecSetIfKey(p)
    \/ \E p \in Callers : CallDelKey(p)
    \/ \E p \in Callers : ExecDelKey(p)
    \/ \E p \in Callers : CallIncrKey(p)
    \/ \E p \in Callers : ExecIncrKey(p)
    \/ \E p \in Callers : Return(p)
    \/ Tick

SpecHeap == InitHeap /\ [][NextHeap]_vars

\* ------------------------------------------------------------ vocabulary
\* The visibility states of the specification, written out from their
\* definition and not from the statements: a key is live at time t when it
\* has a row whose expires_at is null or strictly later than t; otherwise it
\* is gone (absent: no row; expired: a row whose expiry has been reached).
Live(row, t) ==
    IF row = NoRow THEN FALSE
    ELSE IF row.expires_at = None THEN TRUE
    ELSE row.expires_at[1] > t

Gone(row, t) == ~Live(row, t)

\* Caller p has run the statement of a call of method op and has not returned.
DoneOp(p, op) == pc[p] = "done" /\ call[p].op = op

DoneSetIf(p, cond) ==
    /\ pc[p] = "done"
    /\ call[p].op = "set_if"
    /\ call[p].cond = cond

\* What a get of key k issued in the current state returns.
GetNow(k) == Returning(k, GetStmt(store[k], now).out)

\* The value a row holds, as the caller passed it.
HoldsValue(row, value) ==
    /\ row.value_json = (IF value.tag = "Json" THEN Some(value.v) ELSE None)
    /\ row.value_float = (IF value.tag = "Double" THEN Some(value.v) ELSE None)

RECURSIVE SumSeq(_)
SumSeq(q) == IF q = <<>> THEN 0 ELSE q[1] + SumSeq(Tail(q))

\* The key names a pattern matches without regard to case, written out:
\* "%" matches every name, "a%" the names that begin with a or A, "_" the
\* names of one character.
Matching(key_pattern) ==
    IF key_pattern = "%" THEN {"", "A", "ab"}
    ELSE IF key_pattern = "a%" THEN {"A", "ab"}
    ELSE {"A"}

\* The rows of table tbl that are in (guild, plugin, bucket) of call c.
InScope(tbl, c) ==
    {k \in DOMAIN tbl :
        /\ tbl[k] # NoRow
        /\ k[1] = c.guild_id
        /\ k[2] = (IF c.plugin_id = None THEN 0 ELSE c.plugin_id[1])
        /\ k[3] = c.bucket}

\* ... that are live at time t and whose key matches the pattern of c.
LiveMatches(tbl, c, t) ==
    {k \in InScope(tbl, c) : Live(tbl[k], t) /\ k[4] \in Matching(c.key_pattern)}

\* The place of a key name in ascending byte order: "" < "A" < "ab".
KeyRank(name) == IF name = "" THEN 0 ELSE IF name = "A" THEN 1 ELSE 2

Min(a, b) == IF a < b THEN a ELSE b

\* The key names of sequence q.
Range(q) == {q[i] : i \in 1..Len(q)}

\* The key names of q come in strictly ascending order.
Ascending(q) == \A i, j \in 1..Len(q) : i < j => KeyRank(q[i]) < KeyRank(q[j])

\* Caller p is enumerating; its last page is in when listing.done.
Listing(p) == pc[p] = "done" /\ listing.active

\* Row r1 may come before row r2 in the order asked for: two rows that hold
\* numbers come by their number, and by updated_at when the numbers are equal.
InOrder(r1, r2, order) ==
    IF r1.value_float = None \/ r2.value_float = None THEN TRUE
    ELSE IF r1.value_float[1] # r2.value_float[1]
         THEN IF order = "Ascending" THEN r1.value_float[1] < r2.value_float[1]
              ELSE r1.value_float[1] > r2.value_float[1]
    ELSE IF order = "Ascending" THEN r1.updated_at <= r2.updated_at
    ELSE r1.updated_at >= r2.updated_at

\* The rows of guild g that are live in table tbl at time t.
LiveOfGuild(tbl, g, t) == {k \in DOMAIN tbl : k[1] = g /\ Live(tbl[k], t)}

\* The storage use of guild g that a call made on table tbl at time t reports.
UsageOf(tbl, g, t) == UsageStmt(tbl, g, t).out

\* What the call with arguments c does when it runs alone on a key whose row
\* is row (or NoRow) and its statement runs at time t.
Alone(c, row, t) ==
    IF c.op = "get" THEN GetStmt(row, t)
    ELSE IF c.op = "set"
         THEN SetStmt(row, t, c.expires_at, ValJson(c.value), ValNum(c.value))
    ELSE IF c.op = "set_if"
         THEN IF c.cond = "IfExists"
              THEN SetIfExistsStmt(row, t, c.expires_at, ValJson(c.value), ValNum(c.value))
              ELSE SetIfNotExistsStmt(row, t, c.expires_at, ValJson(c.value), ValNum(c.value))
    ELSE IF c.op = "del" THEN DelStmt(row, t)
    ELSE IncrStmt(row, t, c.incr_by)

\* Caller p found the row `row`, left it as and returned what its call does alone.
RanAlone(p, row) ==
    /\ ret[p].before = row
    /\ ret[p].after = Alone(call[p], row, ret[p].at).row
    /\ ret[p].res = Returning(call[p].key, Alone(call[p], row, ret[p].at).out)

\* The composite key (guild, plugin, bucket, key) that the arguments of call
\* c name; no plugin is plugin 0.
OwnKey(c) ==
    <<c.guild_id, IF c.plugin_id = None THEN 0 ELSE c.plugin_id[1], c.bucket, c.name>>

\* The row that the statement of caller p read back: the row it found for get
\* and del, the row it wrote for set, set_if and incr.
ReadBack(p) == IF call[p].op \in {"get", "del"} THEN ret[p].before ELSE ret[p].after

\* ---------------------------------------------------------------- claims

\* C1: get returns an entry if and only if the key has a row whose expires_at
\* is null or strictly later than the current time; the entry is that row's;
\* a row whose expiry has been reached gives absent although it is still in
\* the table, and get changes nothing.
C1_GetReturnsLiveOnly ==
    \A p \in Procs :
        DoneOp(p, "get") =>
            /\ (ret[p].res # None) <=> Live(ret[p].before, ret[p].at)
            /\ ret[p].res # None => ret[p].res = Some(ToEntry(call[p].key, ret[p].before))
            /\ ret[p].after = ret[p].before

\* A get found a row whose expiry had passed and returned absent.
C1_Witness ==
    \E p \in Procs :
        /\ DoneOp(p, "get")
        /\ ret[p].before # NoRow
        /\ ret[p].before.expires_at # None
        /\ ret[p].before.expires_at[1] < ret[p].at
        /\ ret[p].res = None
        /\ store[call[p].key] # NoRow

\* C2: after set(k, v, ttl), whatever the key held before, a get of k issued
\* with no other operation on k in between and before the new expiry is
\* reached returns an entry with value v and with the expires_at of this
\* call (none when no ttl was given): the old value and expiry are replaced.
C2_SetThenGet ==
    \A p \in Procs :
        (/\ DoneOp(p, "set")
         /\ lastProc = p
         /\ (IF call[p].expires_at = None THEN TRUE ELSE call[p].expires_at[1] > now))
        => /\ GetNow(call[p].key) # None
           /\ GetNow(call[p].key)[1].value = call[p].value
           /\ GetNow(call[p].key)[1].expires_at = call[p].expires_at
           /\ call[p].ttl = None => GetNow(call[p].key)[1].expires_at = None
           /\ ret[p].res = Some(ToEntry(call[p].key, store[call[p].key]))

\* A set replaced a live entry that had another value and an expiry by a
\* value without expiry, and time has passed since.
C2_Witness ==
    \E p \in Procs :
        /\ DoneOp(p, "set")
        /\ lastProc = p
        /\ Live(ret[p].before, ret[p].at)
        /\ ret[p].before.expires_at # None
        /\ call[p].expires_at = None
        /\ ~HoldsValue(ret[p].before, call[p].value)
        /\ now > ret[p].at
        /\ GetNow(call[p].key) # None

\* C3: set on a key that is absent or expired stores created_at = updated_at
\* = the mutation time; set on a live row keeps created_at and sets
\* updated_at to the mutation time.
C3_SetTimestamps ==
    \A p \in Procs :
        DoneOp(p, "set") =>
            /\ ret[p].after.updated_at = ret[p].at
            /\ ret[p].after.created_at =
                   (IF Live(ret[p].before, ret[p].at)
                    THEN ret[p].before.created_at
                    ELSE ret[p].at)

\* C4: set_if(IfExists) on a key that is absent or expired returns none and
\* changes nothing: no row is created, an expired row keeps all its fields,
\* and a get right after it still returns absent.
C4_IfExistsOnGoneIsNoOp ==
    \A p \in Procs :
        (DoneSetIf(p, "IfExists") /\ Gone(ret[p].before, ret[p].at))
        => /\ ret[p].res = None
           /\ ret[p].after = ret[p].before
           /\ lastProc = p =>
                  /\ store[call[p].key] = ret[p].before
                  /\ GetNow(call[p].key) = None

\* A set_if(IfExists) found an expired row and left it alone.
C4_Witness ==
    \E p \in Procs :
        /\ DoneSetIf(p, "IfExists")
        /\ ret[p].before # NoRow
        /\ Gone(ret[p].before, ret[p].at)
        /\ lastProc = p
        /\ store[call[p].key] = ret[p].before
        /\ ~HoldsValue(ret[p].before, call[p].value)

\* C5: set_if(IfNotExists) on a key with a live entry returns none and leaves
\* the row as it was, so a get after it returns the same entry as before.
C5_IfNotExistsOnLiveIsNoOp ==
    \A p \in Procs :
        (DoneSetIf(p, "IfNotExists") /\ Live(ret[p].before, ret[p].at))
        => /\ ret[p].res = None
           /\ ret[p].after = ret[p].before
           /\ lastProc = p =>
                  /\ store[call[p].key] = ret[p].before
                  /\ Live(store[call[p].key], now) =>
                         GetNow(call[p].key) = Some(ToEntry(call[p].key, ret[p].before))

\* A set_if(IfNotExists) with another value found a live entry with an expiry.
C5_Witness ==
    \E p \in Procs :
        /\ DoneSetIf(p, "IfNotExists")
        /\ Live(ret[p].before, ret[p].at)
        /\ ret[p].before.expires_at # None
        /\ ~HoldsValue(ret[p].before, call[p].value)
        /\ lastProc = p
        /\ ret[p].res = None

\* C6: set_if(IfNotExists) on a key that is absent or expired, that is
\* whenever a get of the key would return absent, succeeds: it returns the new
\* entry, stores the given value and expiry, and sets created_at = updated_at
\* = the mutation time.
C6_IfNotExistsOnGoneSucceeds ==
    \A p \in Procs :
        (DoneSetIf(p, "IfNotExists") /\ Gone(ret[p].before, ret[p].at))
        => /\ ret[p].res # None
           /\ ret[p].after # NoRow
           /\ HoldsValue(ret[p].after, call[p].value)
           /\ ret[p].after.expires_at = call[p].expires_at
           /\ ret[p].after.created_at = ret[p].at
           /\ ret[p].after.updated_at = ret[p].at

\* C7: when two set_if(IfNotExists) calls race on the same absent or expired
\* key (the second was in flight when the statement of the first ran), exactly
\* one of them returns an entry, the other returns none, and the stored row
\* holds the winner's value and expiry.
C7_IfNotExistsRaceOneWinner ==
    \A p \in Procs : \A q \in Procs \ {p} :
        (/\ DoneSetIf(p, "IfNotExists")
         /\ DoneSetIf(q, "IfNotExists")
         /\ call[p].key = call[q].key
         /\ q \in ret[p].inflight
         /\ Gone(ret[p].before, ret[p].at))
        => /\ (ret[p].res = None) # (ret[q].res = None)
           /\ ret[p].res # None =>
                  /\ HoldsValue(store[call[p].key], call[p].value)
                  /\ store[call[p].key].expires_at = call[p].expires_at
           /\ ret[q].res # None =>
                  /\ HoldsValue(store[call[q].key], call[q].value)
                  /\ store[call[q].key].expires_at = call[q].expires_at

\* C8: incr(k, delta) on a key that is absent or expired, that is whenever a
\* get of the key would return absent, leaves an entry whose value is exactly
\* delta, with created_at the mutation time and no expiry.
C8_IncrOnGoneStartsAtDelta ==
    \A p \in Procs :
        (DoneOp(p, "incr") /\ Gone(ret[p].before, ret[p].at))
        => /\ ret[p].after.value_float = Some(call[p].incr_by)
           /\ ret[p].after.created_at = ret[p].at
           /\ ret[p].after.expires_at = None
           /\ ret[p].res[1].value = [tag |-> "Double", v |-> call[p].incr_by]

\* C9: incr(k, delta) on a live numeric entry yields the previous value plus
\* delta and keeps created_at; hence the incr calls that follow one another
\* on a key without a row leave the sum of their increments.
C9_IncrAccumulates ==
    /\ \A p \in Procs :
           (/\ DoneOp(p, "incr")
            /\ Live(ret[p].before, ret[p].at)
            /\ ret[p].before.value_float # None)
           => /\ ret[p].after.value_float =
                      Some(ret[p].before.value_float[1] + call[p].incr_by)
              /\ ret[p].after.created_at = ret[p].before.created_at
              /\ ret[p].res[1].value =
                      [tag |-> "Double", v |-> ret[p].before.value_float[1] + call[p].incr_by]
    /\ \A k \in Keys :
           incrRun[k] # <<>> =>
               /\ store[k] # NoRow
               /\ store[k].value_float = Some(SumSeq(incrRun[k]))

\* Three incr(+1) in a row on a key without a row, the last at a later time
\* than the first: the value is 3.
C9_Witness ==
    \E p \in Procs :
        /\ DoneOp(p, "incr")
        /\ incrRun[call[p].key] = <<1, 1, 1>>
        /\ store[call[p].key].value_float = Some(3)
        /\ store[call[p].key].created_at < ret[p].at

\* C10: incr on a live entry does not change the entry's expiry.
C10_IncrKeepsExpiry ==
    \A p \in Procs :
        (DoneOp(p, "incr") /\ Live(ret[p].before, ret[p].at))
        => ret[p].after.expires_at = ret[p].before.expires_at

\* C11: concurrent incr calls on a key that is live (or has no row) lose no
\* update: once both have run, the stored value is the initial value (0
\* without a row) plus both increments, the first call returned the initial
\* value plus its own increment and the second call returned the total.
C11_ConcurrentIncrNoLostUpdate ==
    \A p \in Procs : \A q \in Procs \ {p} :
        (/\ DoneOp(p, "incr")
         /\ DoneOp(q, "incr")
         /\ call[p].key = call[q].key
         /\ q \in ret[p].inflight
         /\ IF ret[p].before = NoRow THEN TRUE
            ELSE Live(ret[p].before, ret[p].at) /\ ret[p].before.value_float # None)
        => LET k == call[p].key
               initial == IF ret[p].before = NoRow THEN 0 ELSE ret[p].before.value_float[1]
           IN  /\ store[k] # NoRow
               /\ store[k].value_float = Some(initial + call[p].incr_by + call[q].incr_by)
               /\ ret[p].res[1].value = [tag |-> "Double", v |-> initial + call[p].incr_by]
               /\ ret[q].res[1].value =
                      [tag |-> "Double", v |-> initial + call[p].incr_by + call[q].incr_by]

\* Two incr calls were in flight together on a live entry holding 1; the one
\* that ran first returned 2, the other 3, and the entry holds 3.
C11_Witness ==
    \E p \in Procs : \E q \in Procs \ {p} :
        /\ DoneOp(p, "incr")
        /\ DoneOp(q, "incr")
        /\ q \in ret[p].inflight
        /\ ret[p].before # NoRow
        /\ ret[p].before.value_float = Some(1)
        /\ ret[p].res[1].value.v = 2
        /\ ret[q].res[1].value.v = 3
        /\ store[call[p].key].value_float = Some(3)

\* C12: after del(k), get(k) returns absent whatever k held; del returns the
\* removed entry exactly when k was live; on an absent or expired key it
\* returns none and changes no row (an expired row stays in the table).
C12_DelRemovesLiveOnly ==
    \A p \in Procs :
        DoneOp(p, "del") =>
            /\ (ret[p].res # None) <=> Live(ret[p].before, ret[p].at)
            /\ Live(ret[p].before, ret[p].at) =>
                   /\ ret[p].res = Some(ToEntry(call[p].key, ret[p].before))
                   /\ ret[p].after = NoRow
            /\ Gone(ret[p].before, ret[p].at) => ret[p].after = ret[p].before
            /\ lastProc = p => GetNow(call[p].key) = None

\* A del found an expired row, returned none and left the row in the table.
C12_Witness ==
    \E p \in Procs :
        /\ DoneOp(p, "del")
        /\ ret[p].before # NoRow
        /\ Gone(ret[p].before, ret[p].at)
        /\ ret[p].res = None
        /\ lastProc = p
        /\ store[call[p].key] = ret[p].before

\* C13: del_many deletes exactly the live rows of its (guild, plugin, bucket)
\* whose key matches the pattern without regard to case, and returns their
\* number; every other row (expired, not matching, of another bucket, plugin
\* or guild) is unchanged.
C13_DelManyDeletesLiveMatches ==
    \A p \in Procs :
        DoneOp(p, "del_many") =>
            LET hit == LiveMatches(ret[p].before, call[p], ret[p].at) IN
            /\ ret[p].res = Cardinality(hit)
            /\ \A k \in DOMAIN ret[p].before :
                   ret[p].after[k] = (IF k \in hit THEN NoRow ELSE ret[p].before[k])

\* A del_many with pattern "a%" deleted the live key "A", left an expired
\* matching row of the bucket and the row "ab" of another bucket in place.
C13_Witness ==
    \E p \in Procs :
        /\ DoneOp(p, "del_many")
        /\ call[p].key_pattern = "a%"
        /\ call[p].bucket = "b"
        /\ call[p].plugin_id = None
        /\ call[p].guild_id = 1
        /\ ret[p].res = 1
        /\ ret[p].before[DbKey(1, None, "b", "A")] # NoRow
        /\ ret[p].after[DbKey(1, None, "b", "A")] = NoRow
        /\ ret[p].after[DbKey(1, None, "b", "ab")] # NoRow
        /\ Gone(ret[p].after[DbKey(1, None, "b", "ab")], ret[p].at)
        /\ ret[p].after[DbKey(1, None, "c", "ab")] # NoRow
        /\ ret[p].after[DbKey(1, Some(1), "b", "ab")] # NoRow

\* C14: delete_guild_bucket_store_data(g) removes every row of guild g, live
\* or expired, of every plugin and bucket, and changes no row of another
\* guild; afterwards get of a key of g returns absent, count 0, get_many the
\* empty list and guild_storage_usage_bytes 0.
C14_DeleteGuildRemovesAll ==
    \A p \in Procs :
        DoneOp(p, "delete_guild_bucket_store_data") =>
            /\ \A k \in DOMAIN ret[p].before :
                   ret[p].after[k] =
                       (IF k[1] = call[p].guild_id THEN NoRow ELSE ret[p].before[k])
            /\ lastProc = p =>
                   /\ \A k \in DOMAIN store : k[1] = call[p].guild_id => GetNow(k) = None
                   /\ \A sc \in ListScopes, pat \in Patterns :
                          sc[1] = call[p].guild_id =>
                              /\ CountStmt(store, sc[1], sc[2], sc[3], pat, now).out = 0
                              /\ \A after \in Cursors, limit \in 0..MaxLimit :
                                     GetManyStmt(store, sc[1], sc[2], sc[3], pat,
                                                 after, limit, now).out = <<>>
                   /\ UsageStmt(store, call[p].guild_id, now).out = 0

\* Guild 1 was purged while it held an expired row, a live row, a row of
\* another plugin and a row of another bucket; the row of guild 2 is still there.
C14_Witness ==
    \E p \in Procs :
        /\ DoneOp(p, "delete_guild_bucket_store_data")
        /\ call[p].guild_id = 1
        /\ lastProc = p
        /\ ret[p].before[DbKey(1, None, "b", "ab")] # NoRow
        /\ Gone(ret[p].before[DbKey(1, None, "b", "ab")], ret[p].at)
        /\ Live(ret[p].before[DbKey(1, None, "b", "A")], ret[p].at)
        /\ ret[p].before[DbKey(1, Some(1), "b", "ab")] # NoRow
        /\ ret[p].before[DbKey(1, None, "c", "ab")] # NoRow
        /\ store[DbKey(1, None, "b", "ab")] = NoRow
        /\ store[DbKey(2, None, "b", "ab")] # NoRow

\* C15: one get_many call returns the first `limit` entries, in ascending key
\* order, of the live rows of its (guild, plugin, bucket) whose key matches
\* the pattern and is strictly greater than `after`: no expired row, no key
\* <= after, no more than `limit` entries; it changes no row.
C15_GetManyPage ==
    \A p \in Procs :
        DoneOp(p, "get_many") =>
            LET cand == {k \in LiveMatches(ret[p].before, call[p], ret[p].at) :
                            KeyRank(k[4]) > KeyRank(call[p].after)}
                page == ret[p].res
                got == {k \in cand : \E i \in 1..Len(page) :
                                         page[i] = ToEntry(k, ret[p].before[k])}
            IN  /\ Len(page) = Min(call[p].limit, Cardinality(cand))
                /\ Cardinality(got) = Len(page)
                /\ \A i, j \in 1..Len(page) :
                       i < j => KeyRank(page[i].key) < KeyRank(page[j].key)
                /\ \A k \in got, o \in cand \ got : KeyRank(k[4]) < KeyRank(o[4])
                /\ ret[p].after = ret[p].before

\* A get_many from the empty cursor with limit 1 returned the key "A" alone
\* while the live key "ab" and the live key "" matched the pattern as well.
C15_Witness ==
    \E p \in Procs :
        /\ DoneOp(p, "get_many")
        /\ call[p].key_pattern = "%"
        /\ call[p].after = ""
        /\ call[p].limit = 1
        /\ call[p].guild_id = 1 /\ call[p].plugin_id = None /\ call[p].bucket = "b"
        /\ Len(ret[p].res) = 1
        /\ ret[p].res[1].key = "A"
        /\ Live(ret[p].before[DbKey(1, None, "b", "ab")], ret[p].at)
        /\ Live(ret[p].before[DbKey(1, None, "b", "")], ret[p].at)

\* C16: when the set of live keys does not change, the chained get_many
\* calls from the empty cursor to the first empty page return every live key
\* matching the pattern exactly once, in strictly ascending order, whatever
\* the keys are (the smallest possible key included).
C16_EnumerationYieldsEveryKey ==
    \A p \in Procs :
        (Listing(p) /\ listing.done /\ listing.fixed) =>
            LET want == {k[4] : k \in {x \in listing.start :
                                          x[4] \in Matching(call[p].key_pattern)}}
            IN  /\ Range(listing.keys) = want
                /\ Len(listing.keys) = Cardinality(want)
                /\ Ascending(listing.keys)

\* C17: during an enumeration with concurrent set, del and expiry, the keys
\* returned across the pages are strictly ascending, no key is returned that
\* was not live when its page was fetched, and every matching key that was
\* live from the first page to the last is returned.
C17_EnumerationUnderWrites ==
    \A p \in Procs :
        Listing(p) =>
            /\ Ascending(listing.keys)
            /\ listing.dead = {}
            /\ listing.done => \A k \in listing.stayed : k[4] \in Range(listing.keys)

\* C18: count returns the number of live rows of its (guild, plugin, bucket)
\* whose key matches the pattern; when the set of live keys does not change
\* it is the number of entries the complete enumeration with that pattern gave.
C18_CountIsEnumerationLength ==
    \A p \in Procs :
        DoneOp(p, "count") =>
            /\ (lastProc = p /\ ret[p].at = now) =>
                   ret[p].res = Cardinality(LiveMatches(store, call[p], now))
            /\ (listing.active /\ listing.fixed) => ret[p].res = Len(listing.keys)

\* C19: sorted_entries returns only live rows of its (guild, plugin, bucket):
\* the slice [offset, offset + limit) of those rows ordered by their number,
\* rows with equal numbers by updated_at, both ascending or both descending
\* as asked; it changes no row.
C19_SortedEntriesSlice ==
    \A p \in Procs :
        DoneOp(p, "sorted_entries") =>
            LET tbl == ret[p].before
                live == {k \in InScope(tbl, call[p]) : Live(tbl[k], ret[p].at)}
                n == Cardinality(live)
                from == call[p].offset + 1
                to == Min(call[p].offset + call[p].limit, n)
            IN  /\ \E q \in Arrangements(live) :
                       /\ \A i, j \in 1..n :
                              i < j => InOrder(tbl[q[i]], tbl[q[j]], call[p].order)
                       /\ Len(ret[p].res) = (IF to >= from THEN to - from + 1 ELSE 0)
                       /\ \A i \in 1..Len(ret[p].res) :
                              ret[p].res[i] = ToEntry(q[from + i - 1], tbl[q[from + i - 1]])
                /\ ret[p].after = tbl

\* A descending sorted_entries with offset 1 skipped the row with the largest
\* number and returned the two rows with equal numbers, the later updated first.
C19_Witness ==
    \E p \in Procs :
        /\ DoneOp(p, "sorted_entries")
        /\ call[p].order = "Descending"
        /\ call[p].offset = 1
        /\ call[p].limit = 2
        /\ Len(ret[p].res) = 2
        /\ ret[p].res[1].key = "A"
        /\ ret[p].res[2].key = ""
        /\ ret[p].res[1].value = ret[p].res[2].value
        /\ ret[p].before[DbKey(1, None, "b", "A")].updated_at
               > ret[p].before[DbKey(1, None, "b", "")].updated_at
        /\ ret[p].before[DbKey(1, None, "b", "ab")].value_float = Some(2)

\* C20: guild_storage_usage_bytes(g) is the sum of the row sizes over the
\* live rows of guild g in all plugins and buckets (0 for a guild without
\* live rows; expired rows and rows of other guilds add nothing); a set that
\* adds a new live row makes it strictly larger, and the del of a row leaves
\* it no larger than it was before the del.
C20_UsageIsSumOfLiveRows ==
    \A p \in Procs :
        /\ DoneOp(p, "guild_storage_usage_bytes") =>
               LET rows == LiveOfGuild(ret[p].before, call[p].guild_id, ret[p].at) IN
               /\ ret[p].res = SumSizes(ret[p].before, rows)
               /\ rows = {} => ret[p].res = 0
               /\ rows # {} => ret[p].res > 0
        /\ (DoneOp(p, "set") /\ lastProc = p
                /\ Gone(ret[p].before, ret[p].at) /\ Live(ret[p].after, ret[p].at)) =>
               UsageOf(store, call[p].key[1], ret[p].at)
                   > UsageOf([store EXCEPT ![call[p].key] = ret[p].before],
                             call[p].key[1], ret[p].at)
        /\ (DoneOp(p, "del") /\ lastProc = p) =>
               UsageOf(store, call[p].key[1], ret[p].at)
                   <= UsageOf([store EXCEPT ![call[p].key] = ret[p].before],
                              call[p].key[1], ret[p].at)

\* The storage use of guild 1 was asked for while the guild held an expired
\* row and live rows of two plugins, and guild 2 a live row: the answer is the
\* size of the two live rows of guild 1.
C20_Witness ==
    \E p \in Procs :
        /\ DoneOp(p, "guild_storage_usage_bytes")
        /\ call[p].guild_id = 1
        /\ ret[p].before[DbKey(1, None, "c", "ab")] # NoRow
        /\ Gone(ret[p].before[DbKey(1, None, "c", "ab")], ret[p].at)
        /\ Live(ret[p].before[DbKey(1, None, "b", "ab")], ret[p].at)
        /\ Live(ret[p].before[DbKey(1, Some(1), "b", "ab")], ret[p].at)
        /\ Live(ret[p].before[DbKey(2, None, "b", "ab")], ret[p].at)
        /\ ret[p].res = ColumnSize(DbKey(1, None, "b", "ab"),
                                   ret[p].before[DbKey(1, None, "b", "ab")])
                        + ColumnSize(DbKey(1, Some(1), "b", "ab"),
                                     ret[p].before[DbKey(1, Some(1), "b", "ab")])

\* C21: in every reachable state each row of the table has exactly one of
\* value_float and value_json populated: never both and never neither,
\* whatever set, set_if, incr and del calls came before (an incr on a live
\* entry that holds a document included).
C21_ExactlyOneValueColumn ==
    \A k \in DOMAIN store :
        store[k] # NoRow =>
            (store[k].value_float = None) # (store[k].value_json = None)

\* C22: when two calls among get, set, set_if, incr and del on the same key
\* have both run, whatever their interleaving, the row of the key and both
\* return values are those of one of the two serial orders of the calls: the
\* first call acts on the row the key had, the second on the row the first
\* left, and the row in the table is the one the second left.
C22_SameKeySerializable ==
    (\A p \in Procs : pc[p] = "done" /\ call[p].key = call[1].key) =>
        \E p \in Procs : \E q \in Procs \ {p} :
            /\ ret[p].at <= ret[q].at
            /\ RanAlone(p, ret[p].before)
            /\ RanAlone(q, ret[p].after)
            /\ store[call[p].key] = ret[q].after

\* A set and an incr were in flight together on a live entry; the incr ran
\* first, the set second, and the row is the one the set wrote.
C22_Witness ==
    \E p \in Procs : \E q \in Procs \ {p} :
        /\ DoneOp(p, "incr")
        /\ DoneOp(q, "set")
        /\ q \in ret[p].inflight
        /\ ret[p].before # NoRow
        /\ Live(ret[p].before, ret[p].at)
        /\ ret[q].before = ret[p].after
        /\ store[call[q].key] = ret[q].after
        /\ store[call[q].key] # ret[p].after

\* C23: a get, set, set_if, incr or del on composite key K acts on the row of
\* K alone: every row with another guild, plugin, bucket or key is unchanged,
\* the result is what the call does alone on the row of K, and a call on
\* another key that ran in between has left no trace on the row of K.
C23_OtherKeysUntouched ==
    /\ \A p \in Procs :
           (pc[p] = "done" /\ lastProc = p) =>
               /\ call[p].key = OwnKey(call[p])
               /\ \A k \in DOMAIN store \ {OwnKey(call[p])} : store[k] = ret[p].table[k]
               /\ RanAlone(p, ret[p].table[OwnKey(call[p])])
    /\ \A p \in Procs : \A q \in Procs \ {p} :
           (pc[p] = "done" /\ pc[q] = "done" /\ lastProc = q) =>
               /\ ret[q].before = ret[p].table[OwnKey(call[q])]
               /\ store[OwnKey(call[p])] = ret[p].after

\* A set on bucket "b" and an incr on the same key name of bucket "c" were in
\* flight together and both changed their own row only.
C23_Witness ==
    \E p \in Procs : \E q \in Procs \ {p} :
        /\ DoneOp(p, "set")
        /\ DoneOp(q, "incr")
        /\ lastProc = q
        /\ q \in ret[p].inflight
        /\ call[q].bucket = "c"
        /\ call[q].name = call[p].name
        /\ ret[p].before # NoRow
        /\ ret[q].before # NoRow
        /\ store[call[p].key].value_float = Some(2)
        /\ store[call[q].key].value_float = Some(2)
        /\ ret[q].table[call[p].key] = ret[p].after

\* C24: a call whose statement reads back a row with neither value_float nor
\* value_json populated does not return an entry (with a defaulted value): it
\* reports a failure to its caller.
C24_NeitherValueIsReported ==
    \A p \in Procs :
        (pc[p] = "done" /\ ret[p].res # None) =>
            ~(ReadBack(p).value_float = None /\ ReadBack(p).value_json = None)

\* C25: a set, or a set_if that stores, called with a ttl leaves the entry
\* with a non-null expires_at equal to the time of the call plus the ttl (the
\* call is made no later than its statement runs), whatever duration the
\* caller passes: the ttl is never dropped.
C25_TtlBecomesExpiry ==
    \A p \in Procs :
        (/\ pc[p] = "done"
         /\ call[p].op \in {"set", "set_if"}
         /\ ret[p].res # None
         /\ call[p].ttl # None)
        => /\ ret[p].after.expires_at # None
           /\ ret[p].after.expires_at[1] - call[p].ttl[1] \in 0..ret[p].at
           /\ ret[p].res[1].expires_at = ret[p].after.expires_at

\* C26: at every instant every row of the table passes exactly one of the
\* liveness test (expires_at null or later than now) and the expiry test
\* (expires_at non-null and earlier than now), so that for every key exactly
\* one of set_if(IfExists) and set_if(IfNotExists) issued now would store.
C26_LiveAndExpiredAreComplements ==
    \A k \in DOMAIN store :
        /\ store[k] # NoRow => (IsLive(store[k], now) # IsExpired(store[k], now))
        /\ (SetIfExistsStmt(store[k], now, None, None, Some(1)).out # NoRow)
               # (SetIfNotExistsStmt(store[k], now, None, None, Some(1)).out # NoRow)

\* C27: a key whose entry is no longer visible to get because its expiry was
\* reached becomes live again only through a set, a set_if(IfNotExists) that
\* stores, or an incr, and then holds exactly the value (for incr, the delta)
\* that call supplied: the value from before the expiry does not come back
\* and does not enter the new value.
C27_NoResurrection ==
    \A p \in Procs :
        (/\ pc[p] = "done"
         /\ ret[p].before # NoRow
         /\ Gone(ret[p].before, ret[p].at)
         /\ Live(ret[p].after, ret[p].at))
        => \/ /\ call[p].op = "set"
              /\ HoldsValue(ret[p].after, call[p].value)
           \/ /\ call[p].op = "set_if"
              /\ call[p].cond = "IfNotExists"
              /\ HoldsValue(ret[p].after, call[p].value)
           \/ /\ call[p].op = "incr"
              /\ ret[p].after.value_float = Some(call[p].incr_by)

\* C28: set_if with IfExists on a live row leaves the row as a set with the
\* same value and ttl would: the value and the expires_at of the call,
\* updated_at the time of the statement, created_at unchanged; and it returns
\* the entry that set would return.
C28_IfExistsActsLikeSet ==
    \A p \in Procs :
        (DoneSetIf(p, "IfExists") /\ Live(ret[p].before, ret[p].at)) =>
            LET asSet == SetStmt(ret[p].before, ret[p].at, call[p].expires_at,
                                 ValJson(call[p].value), ValNum(call[p].value))
            IN  /\ ret[p].after = asSet.row
                /\ ret[p].res = Returning(call[p].key, asSet.out)
                /\ HoldsValue(ret[p].after, call[p].value)
                /\ ret[p].after.expires_at = call[p].expires_at
                /\ ret[p].after.updated_at = ret[p].at
                /\ ret[p].after.created_at = ret[p].before.created_at

\* A set_if with IfExists and a ttl replaced, at time 1, the value of a live
\* entry created at time 0.
C28_Witness ==
    \E p \in Procs :
        /\ DoneSetIf(p, "IfExists")
        /\ Live(ret[p].before, ret[p].at)
        /\ ret[p].at = 1
        /\ ret[p].before.created_at = 0
        /\ call[p].ttl # None
        /\ ret[p].after.expires_at # None
        /\ ~HoldsValue(ret[p].before, call[p].value)
        /\ ret[p].res # None

\* C29: get, get_many, count, sorted_entries and guild_storage_usage_bytes
\* create, change and remove no row: the table, its expired rows and all
\* timestamps included, is the same after each of them as before.
C29_ReadsChangeNothing ==
    \A p \in Procs :
        /\ (DoneOp(p, "get") /\ lastProc = p) =>
               /\ store = ret[p].table
               /\ ret[p].after = ret[p].before
        /\ (pc[p] = "done"
                /\ call[p].op \in {"get_many", "count", "sorted_entries",
                                   "guild_storage_usage_bytes"}) =>
               /\ ret[p].after = ret[p].before
               /\ lastProc = p => store = ret[p].before

\* A get of a key whose row has expired returned absent and the expired row
\* is still in the table.
C29_Witness ==
    \E p \in Procs :
        /\ DoneOp(p, "get")
        /\ lastProc = p
        /\ ret[p].res = None
        /\ ret[p].before # NoRow
        /\ Gone(ret[p].before, ret[p].at)
        /\ store[call[p].key] = ret[p].before
        /\ \E k \in DOMAIN store \ {call[p].key} : Live(store[k], now)

\* C30: for every plugin_id argument (none, Some(0) and every Some(n) up to
\* the largest u64) the entry that set and get return carries that plugin_id,
\* and the row a call reads, writes or deletes is the row of no other
\* plugin_id argument.
C30_PluginIdRoundTrips ==
    \A p \in Procs :
        pc[p] = "done" =>
            /\ ret[p].res # None => ret[p].res[1].plugin_id = call[p].plugin_id
            /\ \A pl \in PluginIds \ {call[p].plugin_id} :
                   DbKey(call[p].guild_id, pl, call[p].bucket, call[p].name) # call[p].key

\* C31: every row has created_at <= updated_at; no statement leaves a row
\* with an earlier updated_at than it found; a set, set_if or incr that
\* returns an entry leaves the row with updated_at the time of the statement;
\* and a set_if that returns none leaves the row, both timestamps included,
\* as it found it.
C31_TimestampsInOrder ==
    /\ \A k \in DOMAIN store :
           store[k] # NoRow => store[k].created_at <= store[k].updated_at
    /\ \A p \in Procs :
           pc[p] = "done" =>
               /\ (ret[p].before # NoRow /\ ret[p].after # NoRow) =>
                      ret[p].before.updated_at <= ret[p].after.updated_at
               /\ (call[p].op \in {"set", "set_if", "incr"} /\ ret[p].res # None) =>
                      /\ ret[p].after # NoRow
                      /\ ret[p].after.updated_at = ret[p].at
                      /\ ret[p].after.created_at <= ret[p].at
               /\ (call[p].op = "set_if" /\ ret[p].res = None) =>
                      ret[p].after = ret[p].before

\* A set replaced, at a later time, the value of a live entry, which keeps
\* its earlier created_at.
C31_Witness ==
    \E p \in Procs :
        /\ DoneOp(p, "set")
        /\ ret[p].res # None
        /\ Live(ret[p].before, ret[p].at)
        /\ ret[p].before.updated_at < ret[p].at
        /\ ret[p].after.created_at < ret[p].after.updated_at
        /\ store[call[p].key] = ret[p].after

\* C32: the table never holds two rows of one composite key (guild_id,
\* plugin_id, bucket, key), live or expired; and a set, set_if or incr on a
\* key that has a row leaves the table with as many rows as it found, the
\* row of the key being the one the statement wrote or left, and the rows of
\* the other keys as they were.
C32_OneRowPerKey ==
    /\ \A i, j \in DOMAIN store : store[i].key = store[j].key => i = j
    /\ \A p \in Procs :
           (/\ pc[p] = "done"
            /\ lastProc = p
            /\ call[p].op \in {"set", "set_if", "incr"}
            /\ \E i \in DOMAIN ret[p].table : ret[p].table[i].key = call[p].key) =>
               /\ Len(store) = Len(ret[p].table)
               /\ \A i \in DOMAIN store :
                      IF ret[p].table[i].key = call[p].key
                      THEN store[i] = [key |-> call[p].key, row |-> ret[p].after]
                      ELSE store[i] = ret[p].table[i]

\* An incr on a key whose row has expired, in a table that also holds the
\* row of another key, left one row for the key.
C32_Witness ==
    \E p \in Procs :
        /\ DoneOp(p, "incr")
        /\ lastProc = p
        /\ Len(ret[p].table) = 2
        /\ ret[p].before # NoRow
        /\ Gone(ret[p].before, ret[p].at)
        /\ Cardinality({i \in DOMAIN store : store[i].key = call[p].key}) = 1

====
